---- MODULE Spec2Model ----
(***************************************************************************)
(* A model of src/assignment0.js: the classes Shape, Triangle and WebGlApp *)
(* and the WebGL2 rendering context they drive.                            *)
(*                                                                         *)
(* One state of the model is the state of the program between two calls of *)
(* its operations: the host page, the handle initGl returned, the context  *)
(* (its objects, its bindings and the calls it received during the last    *)
(* operation), the application's shape list, and the last Shape that was   *)
(* constructed directly.  Every action is one whole call.                  *)
(*                                                                         *)
(* Floating-point values are kept as unevaluated terms (FloatTerm): the    *)
(* model never rounds, adds or compares them.  The source never deletes a  *)
(* buffer or a vertex array, so the context only gains objects.            *)
(***************************************************************************)
EXTENDS Integers, Sequences, FiniteSets, TLC

VARIABLES
    host,     \* the page: is there a 'canvas' element, does it give a webgl2 context
    handle,   \* what the last initGl call produced
    gl,       \* the WebGL2 context
    shapes,   \* WebGlApp.shapes
    obj,      \* <<s>> for the Shape s last built by a direct constructor call, or NoShape
    last,     \* the operation that ran last: its name, of a render the canvas size,
              \* of a construction the requests the context refused
    repeated  \* last is a render, and so was the operation before it, with the same size

vars == <<host, handle, gl, shapes, obj, last, repeated>>

----------------------------------------------------------------------------
(* Bounds of the model.                                                    *)

\* the longest shape list addTriangle is allowed to build
MaxShapes == 2
\* the number of objects the context hands out before the model stops creating
MaxHandles == 7

----------------------------------------------------------------------------
(* Values.                                                                 *)

\* JavaScript's null; createBuffer and createVertexArray return it on failure
Null == 0

\* a field of `this` that no statement has assigned yet
Undefined == "undefined"

\* no Shape has been constructed directly yet
NoShape == <<>>

\* base + scale * trig, unevaluated; trig is "one", "cos30" or "sin30"
FloatTerm(base, scale, trig) == <<base, scale, trig>>

\* Math.cos(deg2rad(30)) and Math.sin(deg2rad(30)), kept symbolic
cosangle == "cos30"
sinangle == "sin30"

\* hex2rgb is imported from js/utils/utils.js: the three components stay symbolic
hex2rgb(hex) == << <<hex, "r">>, <<hex, "g">>, <<hex, "b">> >>

\* new Float32Array(a): each element rounded to single precision, 4 bytes each
Float32Array(a) == [type |-> "Float32Array",
                    data |-> [i \in DOMAIN a |-> <<"fround", a[i]>>],
                    byteLength |-> 4 * Len(a)]

\* new Uint16Array(a): each element taken modulo 2^16, 2 bytes each
Uint16Array(a) == [type |-> "Uint16Array",
                   data |-> [i \in DOMAIN a |-> a[i] % 65536],
                   byteLength |-> 2 * Len(a)]

----------------------------------------------------------------------------
(* The WebGL2 context, as the calls of the source use it.                  *)

\* the context getContext('webgl2') returns: no objects, nothing bound.  Of the
\* context's state the model keeps its objects and its bindings, and the calls
\* it received during the operation that ran last
FreshContext ==
    [ nextHandle   |-> 1,
      buffers      |-> {},
      vaos         |-> {},
      uploads      |-> <<>>,
      arrayBuffer  |-> Null,
      vertexArray  |-> Null,
      elementArray |-> (Null :> Null),
      attrib       |-> (Null :> [enabled |-> FALSE, buffer |-> Null, size |-> 0]),
      calls        |-> <<>> ]

Call(g, c) == [g EXCEPT !.calls = Append(@, c)]

\* gl.createBuffer(): a new buffer object, or null when the context cannot make one
createBuffer(g, ok) ==
    IF ok
    THEN [gl  |-> [Call(g, <<"createBuffer">>) EXCEPT
                      !.nextHandle = @ + 1,
                      !.buffers = @ \cup {g.nextHandle},
                      !.uploads = @ @@ (g.nextHandle :> <<>>)],
          ret |-> g.nextHandle]
    ELSE [gl |-> Call(g, <<"createBuffer">>), ret |-> Null]

\* gl.createVertexArray(): a new vertex-array object, or null
createVertexArray(g, ok) ==
    IF ok
    THEN [gl  |-> [Call(g, <<"createVertexArray">>) EXCEPT
                      !.nextHandle = @ + 1,
                      !.vaos = @ \cup {g.nextHandle},
                      !.elementArray = @ @@ (g.nextHandle :> Null),
                      !.attrib = @ @@ (g.nextHandle :>
                          [enabled |-> FALSE, buffer |-> Null, size |-> 0])],
          ret |-> g.nextHandle]
    ELSE [gl |-> Call(g, <<"createVertexArray">>), ret |-> Null]

\* gl.bindBuffer(target, buffer); the ELEMENT_ARRAY_BUFFER binding belongs to
\* the vertex-array object that is bound
bindBuffer(g, target, buffer) ==
    LET g1 == Call(g, <<"bindBuffer", target, buffer>>)
    IN  IF target = "ARRAY_BUFFER"
        THEN [g1 EXCEPT !.arrayBuffer = buffer]
        ELSE [g1 EXCEPT !.elementArray[g.vertexArray] = buffer]

\* the buffer bound to target
BoundBuffer(g, target) ==
    IF target = "ARRAY_BUFFER" THEN g.arrayBuffer ELSE g.elementArray[g.vertexArray]

\* gl.bufferData(target, data, STATIC_DRAW); INVALID_OPERATION, and no upload,
\* when nothing is bound to target.  Of each upload the context keeps the size.
bufferData(g, target, data) ==
    LET g1 == Call(g, <<"bufferData", target, data.type, "STATIC_DRAW">>)
        b  == BoundBuffer(g, target)
    IN  IF b = Null THEN g1
        ELSE [g1 EXCEPT !.uploads[b] = Append(@, data.byteLength)]

\* gl.bindVertexArray(vao)
bindVertexArray(g, vao) ==
    [Call(g, <<"bindVertexArray", vao>>) EXCEPT !.vertexArray = vao]

\* gl.enableVertexAttribArray(loc); INVALID_VALUE, and no effect, for loc = -1
enableVertexAttribArray(g, loc) ==
    LET g1 == Call(g, <<"enableVertexAttribArray", loc>>)
    IN  IF loc < 0 THEN g1
        ELSE [g1 EXCEPT !.attrib[g.vertexArray].enabled = TRUE]

\* gl.vertexAttribPointer(loc, size, FLOAT, false, 0, 0)
vertexAttribPointer(g, loc, size) ==
    LET g1 == Call(g, <<"vertexAttribPointer", loc, size, "FLOAT">>)
    IN  IF loc < 0 THEN g1
        ELSE [g1 EXCEPT !.attrib[g.vertexArray].buffer = g.arrayBuffer,
                        !.attrib[g.vertexArray].size = size]

\* gl.uniform3fv(gl.getUniformLocation(program, 'u_color'), color)
uniform3fv(g, name, value) ==
    Call(Call(g, <<"getUniformLocation", name>>), <<"uniform3fv", name, value>>)

\* gl.drawElements(mode, count, UNSIGNED_SHORT, 0)
drawElements(g, mode, count) ==
    Call(g, <<"drawElements", mode, count, "UNSIGNED_SHORT">>)

----------------------------------------------------------------------------
(* class Shape                                                             *)

\* what a construction asks of the context: the vertex buffer, the index
\* buffer, the vertex array and the location of 'a_position'
Requests == {"vbo", "ibo", "vao", "loc"}

\* the requests the context refuses during one construction (a null object,
\* location -1): none of them, or one
Env == {{}} \cup {{r} : r \in Requests}

\* gl.getAttribLocation(shader.program, 'a_position')
getAttribLocation(refused) == IF "loc" \in refused THEN -1 ELSE 0

createVBO(g, this, ok) ==
    LET c  == createBuffer(g, ok)
        t1 == [this EXCEPT !.vertices_buffer = c.ret]
        g1 == bindBuffer(c.gl, "ARRAY_BUFFER", t1.vertices_buffer)
        g2 == bufferData(g1, "ARRAY_BUFFER", Float32Array(t1.vertices))
        g3 == bindBuffer(g2, "ARRAY_BUFFER", Null)
    IN  [gl |-> g3, this |-> t1]

createIBO(g, this, ok) ==
    LET c  == createBuffer(g, ok)
        t1 == [this EXCEPT !.index_buffer = c.ret]
        g1 == bindBuffer(c.gl, "ELEMENT_ARRAY_BUFFER", t1.index_buffer)
        g2 == bufferData(g1, "ELEMENT_ARRAY_BUFFER", Uint16Array(t1.indices))
        g3 == bindBuffer(g2, "ELEMENT_ARRAY_BUFFER", Null)
    IN  [gl |-> g3, this |-> t1]

createVAO(g, this, ok, loc) ==
    LET c  == createVertexArray(g, ok)
        t1 == [this EXCEPT !.vertex_array_object = c.ret]
        g1 == bindVertexArray(c.gl, t1.vertex_array_object)
        g2 == Call(g1, <<"getAttribLocation", "a_position">>)
        g3 == enableVertexAttribArray(g2, loc)
        g4 == bindBuffer(g3, "ARRAY_BUFFER", t1.vertices_buffer)
        g5 == vertexAttribPointer(g4, loc, t1.num_components)
        g6 == bindBuffer(g5, "ARRAY_BUFFER", Null)
        g7 == bindVertexArray(g6, Null)
    IN  [gl |-> g7, this |-> t1]

\* new Shape(gl, shader, vertices, indices, color, draw_mode, num_elements)
ShapeConstructor(g, shader, vertices, indices, color, draw_mode, num_elements, refused) ==
    LET t0 == [ shader              |-> shader,
                vertices            |-> vertices,
                vertices_buffer     |-> Null,
                indices             |-> Undefined,
                index_buffer        |-> Undefined,
                color               |-> Undefined,
                draw_mode           |-> Undefined,
                num_components      |-> Undefined,
                num_elements        |-> Undefined,
                vertex_array_object |-> Undefined ]
        a  == createVBO(g, t0, "vbo" \notin refused)
        t1 == [a.this EXCEPT !.indices = indices, !.index_buffer = Null]
        b  == createIBO(a.gl, t1, "ibo" \notin refused)
        t2 == [b.this EXCEPT !.color = color,
                             !.draw_mode = draw_mode,
                             !.num_components = 2,
                             !.num_elements = num_elements,
                             !.vertex_array_object = Null]
    IN  createVAO(b.gl, t2, "vao" \notin refused, getAttribLocation(refused))

\* Shape.render(gl) without its last line: the vertex array stays bound
ShapeRenderKeepsVao(g, this) ==
    LET g1 == bindVertexArray(g, this.vertex_array_object)
        g2 == bindBuffer(g1, "ELEMENT_ARRAY_BUFFER", this.index_buffer)
        g3 == uniform3fv(g2, "u_color", this.color)
        g4 == drawElements(g3, this.draw_mode, this.num_elements)
    IN  bindBuffer(g4, "ELEMENT_ARRAY_BUFFER", Null)

\* Shape.render(gl) that uploads the indices again before it draws
ShapeRenderUploads(g, this) ==
    LET g1 == bindVertexArray(g, this.vertex_array_object)
        g2 == bindBuffer(g1, "ELEMENT_ARRAY_BUFFER", this.index_buffer)
        g3 == bufferData(g2, "ELEMENT_ARRAY_BUFFER", Uint16Array(this.indices))
        g4 == uniform3fv(g3, "u_color", this.color)
        g5 == drawElements(g4, this.draw_mode, this.num_elements)
        g6 == bindBuffer(g5, "ELEMENT_ARRAY_BUFFER", Null)
    IN  bindVertexArray(g6, Null)

\* Shape.render(gl)
ShapeRender(g, this) ==
    LET g1 == bindVertexArray(g, this.vertex_array_object)
        g2 == bindBuffer(g1, "ELEMENT_ARRAY_BUFFER", this.index_buffer)
        g3 == uniform3fv(g2, "u_color", this.color)
        g4 == drawElements(g3, this.draw_mode, this.num_elements)
        g5 == bindBuffer(g4, "ELEMENT_ARRAY_BUFFER", Null)
    IN  bindVertexArray(g5, Null)

----------------------------------------------------------------------------
(* class Triangle                                                          *)

TriangleVertices(position, sideLength) ==
    << FloatTerm(position[1], 0, "one"),
       FloatTerm(position[2], -sideLength, "one"),
       FloatTerm(position[1], sideLength, cosangle),
       FloatTerm(position[2], sideLength, sinangle),
       FloatTerm(position[1], -sideLength, cosangle),
       FloatTerm(position[2], sideLength, sinangle) >>

TriangleIndices == <<0, 1, 2>>

\* new Triangle(gl, shader, position, color, sideLength)
TriangleConstructor(g, shader, position, color, sideLength, refused) ==
    ShapeConstructor(g, shader, TriangleVertices(position, sideLength),
                     TriangleIndices, color, "TRIANGLES", Len(TriangleIndices), refused)

----------------------------------------------------------------------------
(* class WebGlApp                                                          *)

\* WebGlApp.initGl(): document.getElementById('canvas').getContext('webgl2')
initGl(h) ==
    IF ~h.canvas THEN "TypeError"
    ELSE IF h.webgl2 THEN "context" ELSE "null"

setViewport(g, width, height) ==
    Call(g, <<"viewport", 0, 0, width, height>>)

BackgroundColor == hex2rgb("#022851")

TriangleColor == hex2rgb("#FFBF00")

clearCanvas(g) ==
    LET color == BackgroundColor
        rgba  == <<color[1], color[2], color[3], 1>>
    IN  Call(Call(g, <<"clearColor", rgba>>), <<"clear", "COLOR_BUFFER_BIT">>)

\* the loop of render walking the list from its end
RECURSIVE RenderShapesBackwards(_, _, _)
RenderShapesBackwards(g, list, i) ==
    IF i > Len(list) THEN g
    ELSE RenderShapesBackwards(ShapeRender(g, list[Len(list) + 1 - i]), list, i + 1)

\* for (const shape of this.shapes) shape.render(gl), from the i-th shape on
RECURSIVE RenderShapes(_, _, _)
RenderShapes(g, list, i) ==
    IF i > Len(list) THEN g
    ELSE RenderShapes(ShapeRender(g, list[i]), list, i + 1)

\* addTriangle with unshift in the place of push
PushFront(list, triangle) == <<triangle>> \o list

\* the list addTriangle leaves: this.shapes.push(triangle)
Push(list, triangle) == Append(list, triangle)

\* the list clearShapes leaves: this.shapes = [ ]
Cleared(list) == <<>>

\* a render loop that takes each shape off the list as it draws it
RenderedDrained(list) == <<>>

\* the list render leaves: the loop only reads it
Rendered(list) == list

----------------------------------------------------------------------------
(* The inputs the model draws.                                             *)

Positions == {<<1, -1>>}
Sides == {1, 2}
Canvases == {<<800, 600>>, <<1, 1>>}
Shader == [program |-> "program"]

\* arguments of a direct Shape construction: vertices, indices, draw mode, count
Geometries ==
    { [vertices |-> <<FloatTerm(0, 0, "one"), FloatTerm(1, 0, "one")>>,
       indices |-> <<0>>, draw_mode |-> "POINTS", num_elements |-> 1],
      [vertices |-> <<FloatTerm(0, 0, "one"), FloatTerm(1, 0, "one"),
                      FloatTerm(2, 0, "one")>>,
       indices |-> <<0>>, draw_mode |-> "POINTS", num_elements |-> 1],
      [vertices |-> <<FloatTerm(0, 0, "one"), FloatTerm(1, 0, "one")>>,
       indices |-> <<0>>, draw_mode |-> "POINTS", num_elements |-> 0] }

\* a new operation starts with an empty record of calls
Begin(g) == [g EXCEPT !.calls = <<>>]

Op(name, args, refused) == [op |-> name, args |-> args, refused |-> refused]

----------------------------------------------------------------------------
(* The state machine.                                                      *)

Init ==
    /\ host \in [canvas : BOOLEAN, webgl2 : BOOLEAN]
    /\ handle = "unset"
    /\ gl = FreshContext
    /\ shapes = <<>>
    /\ obj = NoShape
    /\ last = Op("new WebGlApp", <<>>, {})
    /\ repeated = FALSE

\* app.initGl(), called once, before the context is used
InitGl ==
    /\ handle = "unset"
    /\ handle' = initGl(host)
    /\ gl' = Begin(gl)
    /\ last' = Op("initGl", <<>>, {})
    /\ repeated' = FALSE
    /\ UNCHANGED <<host, shapes, obj>>

\* app.addTriangle(gl, shader, position, sideLength), gl being the context
\* initGl returned
AddTriangle ==
    /\ handle = "context"
    /\ Len(shapes) < MaxShapes
    /\ gl.nextHandle + 2 <= MaxHandles
    /\ \E position \in Positions, sideLength \in Sides, env \in Env :
          LET r == TriangleConstructor(Begin(gl), Shader, position, TriangleColor,
                                       sideLength, env)
          IN  /\ gl' = r.gl
              /\ shapes' = Push(shapes, r.this)
              /\ last' = Op("addTriangle", <<>>, env)
    /\ repeated' = FALSE
    /\ UNCHANGED <<host, handle, obj>>

\* app.clearShapes()
ClearShapes ==
    /\ shapes' = Cleared(shapes)
    /\ gl' = Begin(gl)
    /\ last' = Op("clearShapes", <<>>, {})
    /\ repeated' = FALSE
    /\ UNCHANGED <<host, handle, obj>>

\* app.render(gl, canvas_width, canvas_height)
Render ==
    /\ handle = "context"
    /\ \E size \in Canvases :
          /\ gl' = RenderShapes(clearCanvas(setViewport(Begin(gl), size[1], size[2])),
                                shapes, 1)
          /\ last' = Op("render", size, {})
          /\ repeated' = (last = Op("render", size, {}))
    /\ shapes' = Rendered(shapes)
    /\ UNCHANGED <<host, handle, obj>>

\* new Shape(gl, shader, vertices, indices, color, draw_mode, num_elements)
NewShape ==
    /\ handle = "context"
    /\ gl.nextHandle + 2 <= MaxHandles
    /\ \E geo \in Geometries, env \in Env :
          LET r == ShapeConstructor(Begin(gl), Shader, geo.vertices, geo.indices,
                                    TriangleColor, geo.draw_mode, geo.num_elements, env)
          IN  /\ gl' = r.gl
              /\ obj' = <<r.this>>
              /\ last' = Op("new Shape", <<>>, env)
    /\ repeated' = FALSE
    /\ UNCHANGED <<host, handle, shapes>>

\* shape.render(gl) on the Shape built directly
RenderShape ==
    /\ handle = "context"
    /\ obj # NoShape
    /\ gl' = ShapeRender(Begin(gl), obj[1])
    /\ last' = Op("Shape.render", <<>>, {})
    /\ repeated' = FALSE
    /\ UNCHANGED <<host, handle, shapes, obj>>

Next ==
    \/ InitGl
    \/ AddTriangle
    \/ ClearShapes
    \/ Render
    \/ NewShape
    \/ RenderShape

Spec == Init /\ [][Next]_vars

----------------------------------------------------------------------------
(* Reading the state.                                                      *)

\* the calls named `name` among `calls`, in order
CallsNamed(calls, name) == SelectSeq(calls, LAMBDA c : c[1] = name)

Count(calls, name) == Len(CallsNamed(calls, name))

\* the place in `calls` of the n-th call named `name`
IndexOf(calls, name, n) ==
    CHOOSE j \in 1..Len(calls) :
        /\ calls[j][1] = name
        /\ Cardinality({k \in 1..j : calls[k][1] = name}) = n

\* the vertex-array object bound when call j of `calls` was made
VaoBoundAt(calls, j) ==
    LET I == {i \in 1..(j - 1) : calls[i][1] = "bindVertexArray"}
    IN  IF I = {} THEN Null
        ELSE calls[CHOOSE i \in I : \A k \in I : k <= i][2]

\* the objects of the context that are alive
Live(g) == g.buffers \cup g.vaos

\* the objects a Shape holds
HandlesOf(s) == {s.vertices_buffer, s.index_buffer, s.vertex_array_object} \ {Null}

ListHandles == UNION {HandlesOf(shapes[i]) : i \in 1..Len(shapes)}

\* the bindings after the first k calls of `calls`, with nothing bound before
RECURSIVE BindingsAfter(_, _)
BindingsAfter(calls, k) ==
    IF k = 0
    THEN [ab |-> Null, va |-> Null, el |-> [h \in 0..gl.nextHandle |-> Null]]
    ELSE LET b == BindingsAfter(calls, k - 1)
             c == calls[k]
         IN  IF c[1] = "bindVertexArray" THEN [b EXCEPT !.va = c[2]]
             ELSE IF c[1] = "bindBuffer" /\ c[2] = "ARRAY_BUFFER"
                  THEN [b EXCEPT !.ab = c[3]]
             ELSE IF c[1] = "bindBuffer"
                  THEN [b EXCEPT !.el[b.va] = c[3]]
             ELSE b

NothingBound(b) == b.ab = Null /\ b.va = Null /\ b.el[Null] = Null

\* call i of `calls` is the first call of createVBO, createIBO, createVAO or
\* Shape.render
MethodStart(calls, i) ==
    \/ calls[i][1] \in {"createBuffer", "createVertexArray"}
    \/ /\ calls[i][1] = "bindVertexArray"
       /\ i < Len(calls)
       /\ calls[i + 1][1] = "bindBuffer"
       /\ calls[i + 1][2] = "ELEMENT_ARRAY_BUFFER"

DrawTriangle == <<"drawElements", "TRIANGLES", 3, "UNSIGNED_SHORT">>

----------------------------------------------------------------------------
(* Claims.                                                                 *)

\* C1: after WebGlApp.render(gl, w, h) on a list of N shapes the context has
\* received, among viewport, clearColor, clear and drawElements calls, exactly
\* viewport(0,0,w,h), then one clear to the background colour, then N
\* drawElements(TRIANGLES, 3), the i-th with the i-th shape's vertex array bound.
C1_FrameSequence ==
    last.op = "render" =>
        LET frame == SelectSeq(gl.calls, LAMBDA c :
                         c[1] \in {"viewport", "clearColor", "clear", "drawElements"})
            N == Len(shapes)
        IN  /\ Len(frame) = 3 + N
            /\ frame[1] = <<"viewport", 0, 0, last.args[1], last.args[2]>>
            /\ frame[2][1] = "clearColor"
            /\ frame[2][2] = <<BackgroundColor[1], BackgroundColor[2],
                               BackgroundColor[3], 1>>
            /\ frame[3] = <<"clear", "COLOR_BUFFER_BIT">>
            /\ \A i \in 1..N :
                  /\ frame[3 + i] = DrawTriangle
                  /\ VaoBoundAt(gl.calls, IndexOf(gl.calls, "drawElements", i))
                        = shapes[i].vertex_array_object

\* C1 witness: a frame of two shapes that have different vertex arrays
C1_Witness ==
    /\ last.op = "render"
    /\ Len(shapes) = 2
    /\ shapes[1].vertex_array_object # Null
    /\ shapes[2].vertex_array_object # Null
    /\ Count(gl.calls, "drawElements") = 2

\* C2: addTriangle appends one shape and keeps the others in place,
\* clearShapes empties the list, every other operation leaves the list as it
\* is, and a render that follows clearShapes issues no draw call.
C2_ListDiscipline ==
    [][ /\ last'.op = "addTriangle" =>
              /\ Len(shapes') = Len(shapes) + 1
              /\ SubSeq(shapes', 1, Len(shapes)) = shapes
              /\ HandlesOf(shapes'[Len(shapes')]) = Live(gl') \ Live(gl)
        /\ last'.op = "clearShapes" => shapes' = <<>>
        /\ last'.op \notin {"addTriangle", "clearShapes"} => shapes' = shapes
        /\ (last.op = "clearShapes" /\ last'.op = "render") =>
              Count(gl'.calls, "drawElements") = 0 ]_vars

\* C2 witness: a render of the empty list after triangles were added and cleared
C2_Witness ==
    /\ last.op = "render"
    /\ shapes = <<>>
    /\ obj = NoShape
    /\ Cardinality(Live(gl)) >= 3
    /\ Count(gl.calls, "drawElements") = 0

\* C3: whenever an operation has returned nothing is bound to the vertex
\* array, ARRAY_BUFFER and ELEMENT_ARRAY_BUFFER, and during the operation
\* nothing was bound when createVBO, createIBO, createVAO or Shape.render began.
C3_BindingDiscipline ==
    /\ NothingBound([ab |-> gl.arrayBuffer, va |-> gl.vertexArray,
                     el |-> gl.elementArray])
    /\ NothingBound(BindingsAfter(gl.calls, Len(gl.calls)))
    /\ \A i \in 1..Len(gl.calls) :
          MethodStart(gl.calls, i) => NothingBound(BindingsAfter(gl.calls, i - 1))

\* C3 witness: a frame of two shapes in which objects were bound
C3_Witness ==
    /\ last.op = "render"
    /\ Len(shapes) = 2
    /\ \E i \in 1..Len(gl.calls) :
          gl.calls[i][1] = "bindVertexArray" /\ gl.calls[i][2] # Null
    /\ \E i \in 1..Len(gl.calls) :
          /\ gl.calls[i][1] = "bindBuffer"
          /\ gl.calls[i][2] = "ELEMENT_ARRAY_BUFFER"
          /\ gl.calls[i][3] # Null

\* C4: when clearShapes discards shapes that own three objects each, none of
\* those objects is alive in the context afterwards.
C4_NoLeakOnClear ==
    [][ ( /\ last'.op = "clearShapes"
          /\ \A i \in 1..Len(shapes) : Cardinality(HandlesOf(shapes[i])) = 3 ) =>
            Live(gl') \cap ListHandles = {} ]_vars

\* C5: every shape in the list has a vertex buffer, an index buffer and a
\* vertex array, and its vertex array reads 'a_position' from its vertex buffer.
C5_NoDegenerateShape ==
    \A i \in 1..Len(shapes) :
        LET s == shapes[i]
        IN  /\ s.vertices_buffer # Null
            /\ s.index_buffer # Null
            /\ s.vertex_array_object # Null
            /\ gl.attrib[s.vertex_array_object].enabled
            /\ gl.attrib[s.vertex_array_object].buffer = s.vertices_buffer

\* C6: no Shape comes out of a construction with an odd number of vertex
\* scalars or with num_elements = 0, and such a construction makes no
\* createBuffer, bufferData or createVertexArray call (stated for a context
\* that refuses nothing).
C6_InvalidGeometryRejected ==
    (last.op = "new Shape" /\ last.refused = {}) =>
        \/ /\ Len(obj[1].vertices) % 2 = 0
           /\ obj[1].num_elements > 0
        \/ /\ Count(gl.calls, "createBuffer") = 0
           /\ Count(gl.calls, "bufferData") = 0
           /\ Count(gl.calls, "createVertexArray") = 0

\* C7: initGl ends with a context or with a failure of its own kind, never
\* with a null handle or an exception of another kind.
C7_InitGlOutcome ==
    last.op = "initGl" => handle \in {"context", "SurfaceUnavailable"}

C9_RenderIdempotent ==
    [][ (last.op = "render" /\ last'.op = "render" /\ last'.args = last.args) =>
            /\ gl'.calls = gl.calls
            /\ shapes' = shapes
            /\ gl' = gl ]_vars

\* C9 witness: the second of two equal renders of a list of two shapes
C9_Witness ==
    /\ repeated
    /\ last.op = "render"
    /\ Len(shapes) = 2
    /\ Count(gl.calls, "drawElements") = 2
    /\ shapes[1] # shapes[2]

====
